---------------------------- MODULE Spec2Model ----------------------------
(***************************************************************************)
(* Model of the GammaExposure pipeline.                                    *)
(*                                                                         *)
(*   parse_options_data.py : workbook grid -> table segments -> months ->  *)
(*                           Calls/Puts tables of one month -> data.csv    *)
(*   calculate_gex.py      : data.csv -> signed GEX per row -> net GEX per *)
(*                           strike -> cumulative GEX                      *)
(*                                                                         *)
(* Text is a tuple of one-character strings, so that strip(), lower(),     *)
(* upper(), replace(',', ''), the substring test and Python's string       *)
(* ordering are computed character by character.  An empty cell (pandas    *)
(* NaN) is the distinguished value NaN.  Row and column indices are        *)
(* 0-based as in the source; row i of a grid df is df[i + 1].              *)
(***************************************************************************)
EXTENDS Integers, Sequences, FiniteSets, TLC

VARIABLES
    \* ---- parse_options_data.py ----
    file_exists,        \* os.path.exists(INPUT_FILE)
    df,                 \* the grid read by pd.read_excel(header=None)
    pc,                 \* position of main() of parse_options_data.py
    table_boundaries,   \* result of find_table_boundaries(df)
    months,             \* result of parse_options_file
    selected_month,     \* months[choice - 1]
    calls,              \* result of find_table_for_month(.., "Calls")
    puts,               \* result of find_table_for_month(.., "Puts")
    csv_data,           \* list of {'OptionType', 'Strike', 'OI'} rows
    data_csv,           \* the file data.csv: absent, or its rows
    outcome,            \* what main() printed last
    error,              \* the exception caught by main(), if any
    \* ---- calculate_gex.py ----
    gpc,                \* position of main() of calculate_gex.py
    gdf,                \* data.csv as written: rows of cell texts
    cfg,                \* spot, iv, mult, t handed to calculate_signed_gex
    gex,                \* the column df['GEX']
    gamma_computed,     \* per row: whether calculate_gamma was called for it
    gex_by_strike,      \* df.groupby('Strike')['GEX'].sum().sort_index()
    cumulative_gex,     \* gex_by_strike.cumsum()
    totals              \* the printed sums

pvars == <<file_exists, df, pc, table_boundaries, months, selected_month,
           calls, puts, csv_data, data_csv, outcome, error>>
gvars == <<gpc, gdf, cfg, gex, gamma_computed, gex_by_strike, cumulative_gex,
           totals>>
vars == <<pvars, gvars>>

-----------------------------------------------------------------------------
(* Bounds of the model.                                                    *)

\* Longest grid made of arbitrary rows.
MaxRows == 4
\* Most data rows in one Calls or Puts table of a structured workbook.
MaxData == 2
\* Most rows of data.csv handed to calculate_gex.py.
MaxCsv == 3
\* Largest number typed at the month prompt.
MaxChoice == 3

-----------------------------------------------------------------------------
(* Text.                                                                   *)

NaN == <<"nan-cell">>

TOTALS == <<"T", "O", "T", "A", "L", "S">>
NoMonthData == <<"N", "o", " ", "m", "o", "n", "t", "h", " ", "d", "a", "t", "a">>
NoMonthDataLong == <<"N", "o", " ", "m", "o", "n", "t", "h", " ", "d", "a", "t", "a", " ", "f", "o", "r", " ", "t", "h", "i", "s", " ", "o", "p", "t", "i", "o", "n", " ", "t", "y", "p", "e">>
PadTotals == <<" ", "T", "O", "T", "A", "L", "S", " ">>
LowerTotals == <<"t", "o", "t", "a", "l", "s">>
MAR26 == <<"M", "A", "R", " ", "2", "6">>
Calls == <<"C", "a", "l", "l", "s">>
Puts == <<"P", "u", "t", "s">>
MarCalls == <<"M", "A", "R", " ", "2", "6", " ", "C", "a", "l", "l", "s">>
MarPuts == <<"M", "A", "R", " ", "2", "6", " ", "P", "u", "t", "s">>
Month == <<"M", "o", "n", "t", "h">>
Strike == <<"S", "t", "r", "i", "k", "e">>
AtClose == <<"A", "t", " ", "C", "l", "o", "s", "e">>
Volume == <<"V", "o", "l", "u", "m", "e">>
Last == <<"L", "a", "s", "t">>
t_month == <<"m", "o", "n", "t", "h">>
t_strike == <<"s", "t", "r", "i", "k", "e">>
t_at_close == <<"a", "t", " ", "c", "l", "o", "s", "e">>
t_nan == <<"n", "a", "n">>
t9000c == <<"9", ",", "0", "0", "0">>
t10000c == <<"1", "0", ",", "0", "0", "0">>
t9000 == <<"9", "0", "0", "0">>
t10000 == <<"1", "0", "0", "0", "0">>
t0 == <<"0">>
t2 == <<"2">>
t5 == <<"5">>
tDash == <<"-">>

Letters == {<<"A", "a">>, <<"B", "b">>, <<"C", "c">>, <<"D", "d">>, <<"E", "e">>,
            <<"F", "f">>, <<"G", "g">>, <<"H", "h">>, <<"I", "i">>, <<"J", "j">>,
            <<"K", "k">>, <<"L", "l">>, <<"M", "m">>, <<"N", "n">>, <<"O", "o">>,
            <<"P", "p">>, <<"Q", "q">>, <<"R", "r">>, <<"S", "s">>, <<"T", "t">>,
            <<"U", "u">>, <<"V", "v">>, <<"W", "w">>, <<"X", "x">>, <<"Y", "y">>,
            <<"Z", "z">>}

LowerChar(c) == IF \E p \in Letters : p[1] = c
                THEN (CHOOSE p \in Letters : p[1] = c)[2] ELSE c
UpperChar(c) == IF \E p \in Letters : p[2] = c
                THEN (CHOOSE p \in Letters : p[2] = c)[1] ELSE c

\* str.lower() and str.upper()
Lower(s) == [i \in 1..Len(s) |-> LowerChar(s[i])]
Upper(s) == [i \in 1..Len(s) |-> UpperChar(s[i])]

IsSpace(c) == c = " "

RECURSIVE LStrip(_)
LStrip(s) == IF s # <<>> /\ IsSpace(Head(s)) THEN LStrip(Tail(s)) ELSE s

RECURSIVE RStrip(_)
RStrip(s) == IF s # <<>> /\ IsSpace(s[Len(s)])
             THEN RStrip(SubSeq(s, 1, Len(s) - 1)) ELSE s

\* str.strip()
Strip(s) == RStrip(LStrip(s))

\* Python's  sub in s
Contains(s, sub) ==
    \E i \in 1..(Len(s) - Len(sub) + 1) : SubSeq(s, i, i + Len(sub) - 1) = sub

\* pd.notna(cell)
NotNa(cell) == cell # NaN

\* str(cell): a text cell is itself, NaN prints as "nan"
Str(cell) == IF cell = NaN THEN t_nan ELSE cell

\* str(cell).strip() if pd.notna(cell) else ""
CellText(cell) == IF NotNa(cell) THEN Strip(Str(cell)) ELSE <<>>

\* row i (0-based) of a grid
Row(d, i) == d[i + 1]

\* the trimmed first-column text of row i
first_col_value(d, i) == CellText(Row(d, i)[1])

-----------------------------------------------------------------------------
(* find_table_boundaries                                                   *)

\* a sentinel test that ignores case
IsBoundaryAnyCase(text) == Upper(text) = TOTALS \/ Contains(text, NoMonthData)

\* the test of line 22 on the trimmed first-column text
IsBoundary(text) == text = TOTALS \/ Contains(text, NoMonthData)

\* a scan that forgets the table left open at the end of the grid
DropLastTable(d, table_start, acc) == acc

\* lines 27-28: the last table need not end with a sentinel
CloseLastTable(d, table_start, acc) ==
    IF table_start < Len(d)
    THEN Append(acc, <<table_start, Len(d) - 1>>)
    ELSE acc

\* the loop of lines 19-24 from row idx on, with the running table_start and
\* the boundaries collected so far
RECURSIVE ScanBoundaries(_, _, _, _)
ScanBoundaries(d, idx, table_start, acc) ==
    IF idx >= Len(d)
    THEN CloseLastTable(d, table_start, acc)
    ELSE IF IsBoundary(first_col_value(d, idx))
         THEN ScanBoundaries(d, idx + 1, idx + 1, Append(acc, <<table_start, idx>>))
         ELSE ScanBoundaries(d, idx + 1, table_start, acc)

find_table_boundaries(d) == ScanBoundaries(d, 0, 0, <<>>)

-----------------------------------------------------------------------------
(* find_header_row, get_months_from_first_table, parse_options_file        *)

\* [str(val).strip().lower() if pd.notna(val) else "" for val in df.iloc[idx]]
row_values(d, idx) ==
    [j \in 1..Len(Row(d, idx)) |->
        IF NotNa(Row(d, idx)[j]) THEN Lower(Strip(Str(Row(d, idx)[j]))) ELSE <<>>]

IsHeaderRow(d, idx) == \E j \in 1..Len(Row(d, idx)) : row_values(d, idx)[j] = t_month

find_header_row(d, start_row, end_row) ==
    IF \E idx \in start_row..end_row : IsHeaderRow(d, idx)
    THEN CHOOSE idx \in start_row..end_row :
            /\ IsHeaderRow(d, idx)
            /\ \A k \in start_row..(idx - 1) : ~IsHeaderRow(d, k)
    ELSE start_row

\* the first column position whose label satisfies  str(col).lower().strip() == name,
\* 0 when there is none
ColumnIs(columns, j, name) == Strip(Lower(Str(columns[j]))) = name

FindColumn(columns, name) ==
    IF \E j \in 1..Len(columns) : ColumnIs(columns, j, name)
    THEN CHOOSE j \in 1..Len(columns) :
            /\ ColumnIs(columns, j, name)
            /\ \A k \in 1..(j - 1) : ~ColumnIs(columns, k, name)
    ELSE 0

\* the positions a label selects: pandas selects every column carrying it
LabelPositions(columns, label) ==
    SelectSeq([j \in 1..Len(columns) |-> j], LAMBDA j : columns[j] = label)

\* Series.unique(): first occurrences, in order
FirstOccurrences(s) ==
    SelectSeq([i \in 1..Len(s) |-> i], LAMBDA i : \A k \in 1..(i - 1) : s[k] # s[i])

Unique(s) == [k \in 1..Len(FirstOccurrences(s)) |-> s[FirstOccurrences(s)[k]]]

NoError == [type |-> "none", columns |-> <<>>]
Raise(type, columns) == [type |-> type, columns |-> columns]

\* columns: the labels of first_table; rows: its rows.  Returns the months or
\* the error raised.
\* lines 62-65 on the cells of the month column
MonthLabels(cells) ==
    [error |-> NoError,
     months |-> SelectSeq([i \in 1..Len(Unique(SelectSeq(cells, NotNa))) |->
                              Strip(Str(Unique(SelectSeq(cells, NotNa))[i]))],
                          LAMBDA m : Upper(m) # TOTALS)]

MonthsOfColumn(columns, rows, month_col) ==
    IF month_col = 0
    THEN [error |-> Raise("ValueError: Could not find 'month' column", columns),
          months |-> <<>>]
    ELSE IF Len(LabelPositions(columns, columns[month_col])) > 1
    THEN \* first_table[month_col] is a DataFrame, which has no unique()
         [error |-> Raise("AttributeError", <<>>), months |-> <<>>]
    ELSE MonthLabels([i \in 1..Len(rows) |-> rows[i][month_col]])

get_months_from_first_table(columns, rows) ==
    MonthsOfColumn(columns, rows, FindColumn(columns, t_month))

\* lines 100-107: dropna(subset=[month_col]) drops a row when a column
\* carrying the label is empty
DropNaMonth(columns, first_table, month_col) ==
    IF month_col = 0 THEN first_table
    ELSE SelectSeq(first_table, LAMBDA r :
            \A j \in 1..Len(columns) : columns[j] = columns[month_col] => NotNa(r[j]))

\* lines 93-109, given the header row found in the first table
MonthsBelowHeader(d, header_row_idx, first_table_end) ==
    get_months_from_first_table(
        Row(d, header_row_idx),
        DropNaMonth(Row(d, header_row_idx),
                    [i \in 1..(first_table_end - header_row_idx) |->
                        Row(d, header_row_idx + i)],
                    FindColumn(Row(d, header_row_idx), t_month)))

\* lines 83-111, given the boundaries found
MonthsOfFirstTable(d, tb) ==
    IF tb = <<>>
    THEN [error |-> Raise("ValueError: No tables found in the file", <<>>),
          months |-> <<>>]
    ELSE MonthsBelowHeader(d, find_header_row(d, tb[1][1], tb[1][2]), tb[1][2])

parse_options_file(d) == MonthsOfFirstTable(d, find_table_boundaries(d))

-----------------------------------------------------------------------------
(* find_table_for_month                                                    *)

\* the test of line 140 on the trimmed first-column text
IsTableEnd(text) == text = TOTALS \/ Contains(text, NoMonthData)

\* the first row index at which the forward scan for the end of table starts
DataStart(idx) == idx + 2

\* lines 137-142
Min(S) == CHOOSE e \in S : \A o \in S : e <= o

StopRows(d, data_start_idx) ==
    {end_idx \in data_start_idx..(Len(d) - 1) : IsTableEnd(first_col_value(d, end_idx))}

TableEnd(d, data_start_idx) ==
    IF StopRows(d, data_start_idx) = {} THEN Len(d) - 1
    ELSE Min(StopRows(d, data_start_idx)) - 1

AllNa(row) == \A j \in 1..Len(row) : ~NotNa(row[j])

\* (pd.DataFrame(), False)
NotFoundTable == [called |-> TRUE, found |-> FALSE, raised |-> FALSE, title |-> -1,
                  columns |-> <<>>, idx |-> <<>>, rows |-> <<>>]

\* before the call
NotCalled == [NotFoundTable EXCEPT !.called = FALSE]

\* The result is (table, found); idx keeps, for each row of the table, the grid
\* row it was taken from.  raised: df.iloc[header_row_idx] is out of bounds when
\* the title row is the last row of the grid (IndexError).
\* lines 145-154: the rows data_start_idx..table_end that are not all empty,
\* under the labels of the header row
TableAt(d, idx, kept) ==
    IF idx + 1 >= Len(d)
    THEN [NotFoundTable EXCEPT !.raised = TRUE, !.title = idx]
    ELSE [called |-> TRUE, found |-> TRUE, raised |-> FALSE, title |-> idx,
          columns |-> Row(d, idx + 1),
          idx |-> kept,
          rows |-> [k \in 1..Len(kept) |-> Row(d, kept[k])]]

DataRows(d, data_start_idx, table_end) ==
    SelectSeq([k \in 1..(table_end - data_start_idx + 1) |-> data_start_idx + k - 1],
              LAMBDA i : ~AllNa(Row(d, i)))

\* lines 131-154 for the title row idx
TableBelowTitle(d, idx) ==
    TableAt(d, idx, DataRows(d, DataStart(idx), TableEnd(d, DataStart(idx))))

TitleRows(d, search_text) ==
    {i \in 0..(Len(d) - 1) : first_col_value(d, i) = search_text}

find_table_for_month(d, month, table_type) ==
    IF TitleRows(d, month \o <<" ">> \o table_type) = {} THEN NotFoundTable
    ELSE TableBelowTitle(d, Min(TitleRows(d, month \o <<" ">> \o table_type)))

-----------------------------------------------------------------------------
(* filter_table_columns and the row loops of main                          *)

\* lines 162-175: the labels kept, Strike first
LabelAt(columns, j) == IF j = 0 THEN <<>> ELSE <<columns[j]>>

columns_to_keep(columns) ==
    LabelAt(columns, FindColumn(columns, t_strike)) \o
    LabelAt(columns, FindColumn(columns, t_at_close))

RECURSIVE Flatten(_)
Flatten(ss) == IF ss = <<>> THEN <<>> ELSE Head(ss) \o Flatten(Tail(ss))

\* table[columns_to_keep], or the table itself when no label was found
TakeColumns(table, pos) ==
    [columns |-> [k \in 1..Len(pos) |-> table.columns[pos[k]]],
     rows    |-> [i \in 1..Len(table.rows) |->
                    [k \in 1..Len(pos) |-> table.rows[i][pos[k]]]]]

KeepColumns(table, keep) ==
    IF keep # <<>>
    THEN TakeColumns(table, Flatten([k \in 1..Len(keep) |->
                                        LabelPositions(table.columns, keep[k])]))
    ELSE [columns |-> table.columns, rows |-> table.rows]

filter_table_columns(table) == KeepColumns(table, columns_to_keep(table.columns))

\* lines 222-228 and 231-237: the rows appended to csv_data for one side, or
\* the IndexError of row.iloc[1] on a table of fewer than two columns
NoRows == [raised |-> FALSE, rows |-> <<>>]

AppendRows(filtered, option_type) ==
    IF filtered.rows # <<>> /\ Len(filtered.columns) < 2
    THEN [raised |-> TRUE, rows |-> <<>>]
    ELSE [raised |-> FALSE,
          rows |-> [i \in 1..Len(filtered.rows) |->
                      [OptionType |-> option_type,
                       Strike |-> filtered.rows[i][1],
                       OI |-> filtered.rows[i][2]]]]

SideRows(table, option_type) ==
    IF table.found THEN AppendRows(filter_table_columns(table), option_type)
    ELSE NoRows

-----------------------------------------------------------------------------
(* The grids the parser is run on.                                         *)

SeqUpTo(S, n) == UNION {[1..k -> S] : k \in 0..n}

\* the month table a workbook starts with
MonthTable == <<<<Month, AtClose>>, <<MAR26, t2>>, <<TOTALS, t5>>>>

\* arbitrary rows: empty, sentinels, near-sentinels, titles, headers, data
RowKinds == {<<NaN, NaN>>,
             <<PadTotals, t5>>,
             <<NoMonthDataLong, NaN>>,
             <<LowerTotals, t5>>,
             <<MarCalls, NaN>>,
             <<MarPuts, NaN>>,
             <<Strike, AtClose>>,
             <<t9000c, t5>>}

\* any grid of such rows, alone or below the month table
FreeGrids == {p \o g : p \in {<<>>, MonthTable}, g \in SeqUpTo(RowKinds, MaxRows)}

\* a workbook as the broker exports it: the month table, then the Calls and
\* the Puts table of the month, each optional, closed or not
Headers == {<<Strike, AtClose>>, <<AtClose, Strike>>, <<Strike, Volume>>, <<Last, Volume>>}
Closings == {<<>>, <<<<TOTALS, t5>>>>}

Blocks(title, data) ==
    {<<>>, <<<<title, NaN>>>>, <<<<title, NaN>>, <<NoMonthDataLong, NaN>>>>}
    \cup {<<<<title, NaN>>, h>> \o rows \o c :
            h \in Headers, rows \in SeqUpTo(data, MaxData), c \in Closings}

CallData == {<<t9000c, t5>>, <<NaN, NaN>>}
PutData == {<<t10000c, t2>>, <<NaN, NaN>>}

Workbooks == {MonthTable \o c \o q : c \in Blocks(MarCalls, CallData),
                                    q \in Blocks(MarPuts, PutData)}

-----------------------------------------------------------------------------
(* main of parse_options_data.py                                           *)

GIdle ==
    /\ gpc = "off"
    /\ gdf = <<>>
    /\ cfg = [spot |-> 0, iv |-> 0, mult |-> 0, t |-> 0]
    /\ gex = <<>>
    /\ gamma_computed = <<>>
    /\ gex_by_strike = <<>>
    /\ cumulative_gex = <<>>
    /\ totals = [all |-> 0, call |-> 0, put |-> 0]

Init ==
    /\ file_exists \in BOOLEAN
    /\ df \in IF file_exists THEN FreeGrids \cup Workbooks ELSE {<<>>}
    /\ pc = "start"
    /\ table_boundaries = <<>>
    /\ months = <<>>
    /\ selected_month = <<>>
    /\ calls = NotCalled
    /\ puts = NotCalled
    /\ csv_data = <<>>
    /\ data_csv = [written |-> FALSE, rows |-> <<>>]
    /\ outcome = "running"
    /\ error = NoError
    /\ GIdle

\* the except clauses of lines 248-253: the message is printed, nothing is written
Abort(e) ==
    /\ pc' = "done"
    /\ outcome' = "error"
    /\ error' = e

\* lines 185-188
FileMissing ==
    /\ pc = "start" /\ ~file_exists
    /\ pc' = "done"
    /\ outcome' = "file_missing"
    /\ UNCHANGED <<file_exists, df, table_boundaries, months, selected_month,
                   calls, puts, csv_data, data_csv, error, gvars>>

\* line 193
ParseFile ==
    /\ pc = "start" /\ file_exists
    /\ table_boundaries' = find_table_boundaries(df)
    /\ \E res \in {parse_options_file(df)} :
          IF res.error # NoError
          THEN Abort(res.error) /\ UNCHANGED months
          ELSE /\ months' = res.months
               /\ pc' = "select"
               /\ UNCHANGED <<outcome, error>>
    /\ UNCHANGED <<file_exists, df, selected_month, calls, puts, csv_data,
                   data_csv, gvars>>

\* lines 203-206: a number within range selects the month
SelectMonth ==
    /\ pc = "select"
    /\ \E choice \in 0..MaxChoice :
          /\ 1 <= choice /\ choice <= Len(months)
          /\ selected_month' = months[choice]
    /\ pc' = "extract"
    /\ UNCHANGED <<file_exists, df, table_boundaries, months, calls, puts,
                   csv_data, data_csv, outcome, error, gvars>>

\* lines 207-210: anything else is asked for again
RejectSelection ==
    /\ pc = "select"
    /\ \E choice \in 0..MaxChoice : ~(1 <= choice /\ choice <= Len(months))
    /\ UNCHANGED vars

\* input() on an exhausted standard input (run_workflow.py pipes one line)
InputExhausted ==
    /\ pc = "select"
    /\ Abort(Raise("EOFError", <<>>))
    /\ UNCHANGED <<file_exists, df, table_boundaries, months, selected_month,
                   calls, puts, csv_data, data_csv, gvars>>

\* lines 213-216
ExtractTables ==
    /\ pc = "extract"
    /\ \E c \in {find_table_for_month(df, selected_month, Calls)},
          p \in {find_table_for_month(df, selected_month, Puts)} :
          IF c.raised
          THEN Abort(Raise("IndexError", <<>>)) /\ calls' = c /\ UNCHANGED puts
          ELSE IF p.raised
          THEN Abort(Raise("IndexError", <<>>)) /\ calls' = c /\ puts' = p
          ELSE /\ calls' = c /\ puts' = p
               /\ pc' = "collect"
               /\ UNCHANGED <<outcome, error>>
    /\ UNCHANGED <<file_exists, df, table_boundaries, months, selected_month,
                   csv_data, data_csv, gvars>>

\* lines 219-237: the Calls rows, then the Puts rows
\* a join that puts the Puts rows first
PutsFirst(cr, pr) ==
    [raised |-> cr.raised \/ pr.raised,
     rows   |-> IF cr.raised THEN <<>> ELSE pr.rows \o cr.rows]

\* csv_data after both loops, or the error of the first loop that raised
JoinSides(cr, pr) ==
    [raised |-> cr.raised \/ pr.raised,
     rows   |-> IF cr.raised THEN <<>> ELSE cr.rows \o pr.rows]

csv_rows(c, p) == JoinSides(SideRows(c, "Call"), SideRows(p, "Put"))

CollectRows ==
    /\ pc = "collect"
    /\ \E r \in {csv_rows(calls, puts)} :
          /\ csv_data' = r.rows
          /\ IF r.raised
             THEN Abort(Raise("IndexError", <<>>))
             ELSE pc' = "write" /\ UNCHANGED <<outcome, error>>
    /\ UNCHANGED <<file_exists, df, table_boundaries, months, selected_month,
                   calls, puts, data_csv, gvars>>

\* lines 240-246
WriteCsv ==
    /\ pc = "write"
    /\ IF csv_data # <<>>
       THEN data_csv' = [written |-> TRUE, rows |-> csv_data] /\ outcome' = "written"
       ELSE outcome' = "nodata" /\ UNCHANGED data_csv
    /\ pc' = "done"
    /\ UNCHANGED <<file_exists, df, table_boundaries, months, selected_month,
                   calls, puts, csv_data, error, gvars>>

Next ==
    \/ FileMissing
    \/ ParseFile
    \/ SelectMonth
    \/ RejectSelection
    \/ InputExhausted
    \/ ExtractTables
    \/ CollectRows
    \/ WriteCsv

Spec == Init /\ [][Next]_vars

-----------------------------------------------------------------------------
(* calculate_gex.py: numbers.                                              *)
(*                                                                         *)
(* Floats are carried in fixed point, or as NaN.  sigma, T, d1 and ln are  *)
(* in thousandths, the density and gamma in millionths, and a GEX in units *)
(* of 1e-8: the factor (1/100) of line 58 is the step from millionths to   *)
(* that unit, so that no product is rounded to zero.  np.log, np.sqrt and  *)
(* norm.pdf are library functions; they are modelled by integer            *)
(* approximations that keep their sign, zeros and monotonicity.            *)

\* line 13: IV = 0.1767, in thousandths
IV_MILLI == 177
\* line 14
MULT == 20
\* line 15: T = 0.202739726, in thousandths
T_MILLI == 203

Num(v) == [nan |-> FALSE, v |-> v]
NaNf == [nan |-> TRUE, v |-> 0]

DigitChars == <<"0", "1", "2", "3", "4", "5", "6", "7", "8", "9">>
IsDigit(c) == \E i \in 1..10 : DigitChars[i] = c
DigitVal(c) == (CHOOSE i \in 1..10 : DigitChars[i] = c) - 1

IsDigits(s) == s # <<>> /\ \A i \in 1..Len(s) : IsDigit(s[i])

RECURSIVE DigitsVal(_)
DigitsVal(s) == IF s = <<>> THEN 0
                ELSE 10 * DigitsVal(SubSeq(s, 1, Len(s) - 1)) + DigitVal(s[Len(s)])

\* str.replace(',', '')
RemoveCommas(s) == SelectSeq(s, LAMBDA c : c # ",")

\* float(text): a number, nan, or ValueError
Float(text) ==
    IF IsDigits(text) THEN [raised |-> FALSE, val |-> Num(DigitsVal(text))]
    ELSE IF Lower(text) = t_nan THEN [raised |-> FALSE, val |-> NaNf]
    ELSE [raised |-> TRUE, val |-> NaNf]

\* float(str(cell).replace(',', '')) of lines 43-47
ParseCell(cell) == Float(RemoveCommas(Str(cell)))

\* np.sqrt of a number of thousandths, in thousandths
RECURSIVE Root(_, _, _)
Root(y, lo, hi) ==
    IF lo >= hi THEN lo
    ELSE IF ((lo + hi + 1) \div 2) * ((lo + hi + 1) \div 2) <= y
    THEN Root(y, (lo + hi + 1) \div 2, hi)
    ELSE Root(y, lo, (lo + hi + 1) \div 2 - 1)

SqrtMilli(x) == Root(x * 1000, 0, x + 1000)

\* np.log(S / K), in thousandths: 2 atanh z with z = (S - K) / (S + K)
AtanhMilli(z) == z + (z * z * z) \div 3000000
                   + ((((z * z * z) \div 1000000) * z * z) \div 5000000)
LnMilli(S, K) == 2 * AtanhMilli(((S - K) * 1000) \div (S + K))

\* 2 ^ k
RECURSIVE Pow2(_)
Pow2(k) == IF k = 0 THEN 1 ELSE 2 * Pow2(k - 1)

\* exp(-f) for 0 <= f < ln 2, both in thousandths
ExpNegMilli(f) == 1000 - f + (f * f) \div 2000 - (f * f * f) \div 6000000

\* norm.pdf(d), d in thousandths, in millionths
PdfMicro(d) == (398942 * ExpNegMilli(((d * d) \div 2000) % 693)) \div
                    (1000 * (IF ((d * d) \div 2000) \div 693 > 20 THEN Pow2(21)
                             ELSE Pow2(((d * d) \div 2000) \div 693)))

\* lines 19-21, in thousandths; r is 0 in every call
d1(S, K, r, T, sigma) ==
    ((LnMilli(S, K) * 1000 + ((r * 1000 + (sigma * sigma) \div 2) * T) \div 1000) * 1000)
        \div (sigma * SqrtMilli(T))

\* lines 27-33, in millionths; K is the parsed strike, a number or NaN
calculate_gamma(S, K, r, T, sigma) ==
    IF T <= 0 THEN Num(0)
    ELSE IF K.nan THEN NaNf
    ELSE Num((PdfMicro(d1(S, K.v, r, T, sigma)) * 1000)
             \div ((S * sigma * SqrtMilli(T)) \div 1000))

\* a product of floats: NaN when a factor is
Times(a, b) == IF a.nan \/ b.nan THEN NaNf ELSE Num(a.v * b.v)

\* a sign rule that leaves Puts positive
KeepSign(option_type, g) == g

\* lines 61-62
ApplySign(option_type, g) ==
    IF option_type = "Put" THEN [g EXCEPT !.v = 0 - g.v] ELSE g

\* lines 54-64, once strike and oi are parsed and oi is not 0
GexOf(option_type, strike, oi, spot, iv, mult, t) ==
    [raised |-> FALSE, gamma_computed |-> TRUE,
     gex |-> ApplySign(option_type,
                Times(Times(Times(calculate_gamma(spot, strike, 0, t, iv), oi),
                            Num(spot)), Num(mult)))]

\* a version without the test of line 50
NoZeroSkip(option_type, strike, oi, spot, iv, mult, t) ==
    IF strike.raised \/ oi.raised
    THEN [raised |-> TRUE, gamma_computed |-> FALSE, gex |-> NaNf]
    ELSE GexOf(option_type, strike.val, oi.val, spot, iv, mult, t)

\* lines 43-51
SignedGex(option_type, strike, oi, spot, iv, mult, t) ==
    IF strike.raised \/ oi.raised
    THEN [raised |-> TRUE, gamma_computed |-> FALSE, gex |-> NaNf]
    ELSE IF ~oi.val.nan /\ oi.val.v = 0
    THEN [raised |-> FALSE, gamma_computed |-> FALSE, gex |-> Num(0)]
    ELSE GexOf(option_type, strike.val, oi.val, spot, iv, mult, t)

calculate_signed_gex(row, spot, iv, mult, t) ==
    SignedGex(row.OptionType, ParseCell(row.Strike), ParseCell(row.OI),
              spot, iv, mult, t)

-----------------------------------------------------------------------------
(* calculate_gex.py: grouping by strike.                                   *)

\* the code point of a character of a Strike cell
CodePoints == <<",", "-", ".", "/", "0", "1", "2", "3", "4", "5", "6", "7", "8", "9">>
Ord(c) == CHOOSE i \in 1..Len(CodePoints) : CodePoints[i] = c

\* Python's  a < b  on strings
TextLess(a, b) ==
    \E i \in 1..Len(b) :
        /\ \A k \in 1..(i - 1) : k <= Len(a) /\ a[k] = b[k]
        /\ (i > Len(a) \/ (i <= Len(a) /\ Ord(a[i]) < Ord(b[i])))

\* pd.read_csv on the Strike column: int64 when every filled cell is a plain
\* number, text (object) otherwise; an empty cell is NaN in both
NumericColumn(cells) ==
    \A i \in 1..Len(cells) : cells[i] # NaN => IsDigits(cells[i])

\* the Strike column as df['Strike'] holds it
StrikeKey(cells, i) ==
    IF cells[i] = NaN THEN [na |-> TRUE, numeric |-> FALSE, num |-> 0, text |-> <<>>]
    ELSE IF NumericColumn(cells)
    THEN [na |-> FALSE, numeric |-> TRUE, num |-> DigitsVal(cells[i]), text |-> <<>>]
    ELSE [na |-> FALSE, numeric |-> FALSE, num |-> 0, text |-> cells[i]]

StrikeColumn(rows) ==
    [i \in 1..Len(rows) |-> StrikeKey([k \in 1..Len(rows) |-> rows[k].Strike], i)]

\* the order of sort_index(): numbers by value, text by code points
KeyLess(a, b) == IF a.numeric THEN a.num < b.num ELSE TextLess(a.text, b.text)

LeastKey(S) == CHOOSE a \in S : \A b \in S : a = b \/ KeyLess(a, b)

RECURSIVE SortKeys(_)
SortKeys(S) == IF S = {} THEN <<>>
               ELSE <<LeastKey(S)>> \o SortKeys(S \ {LeastKey(S)})

\* Series.sum(): NaN is skipped
RECURSIVE SumSkipNa(_)
SumSkipNa(s) == IF s = <<>> THEN 0
                ELSE (IF Head(s).nan THEN 0 ELSE Head(s).v) + SumSkipNa(Tail(s))

\* the positions of the rows of one group, and of one option type
RowsOfKey(keys, key) ==
    SelectSeq([i \in 1..Len(keys) |-> i], LAMBDA i : keys[i] = key)
RowsOfType(rows, option_type) ==
    SelectSeq([i \in 1..Len(rows) |-> i], LAMBDA i : rows[i].OptionType = option_type)

\* the values at these positions
Pick(s, idx) == [k \in 1..Len(idx) |-> s[idx[k]]]

\* a group sum that keeps only the last row of a group
LastOfGroup(keys, g, key) ==
    Pick(g, RowsOfKey(keys, key))[Len(RowsOfKey(keys, key))].v

\* the sum of GEX over the rows of one key
GroupSum(keys, g, key) == SumSkipNa(Pick(g, RowsOfKey(keys, key)))

\* groupby('Strike')['GEX'].sum() over the sorted keys; NaN keys are dropped
SumByKey(keys, g, sorted) ==
    [k \in 1..Len(sorted) |-> [Strike |-> sorted[k], GEX |-> GroupSum(keys, g, sorted[k])]]

\* line 80
groupby_strike_sum(keys, g) ==
    SumByKey(keys, g, SortKeys({keys[i] : i \in {j \in 1..Len(keys) : ~keys[j].na}}))

\* line 119: Series.cumsum()
cumsum(s) == [k \in 1..Len(s) |-> [Strike |-> s[k].Strike,
                                   GEX |-> SumSkipNa([j \in 1..k |-> Num(s[j].GEX)])]]

\* lines 93-95
SideTotal(rows, g, option_type) ==
    SumSkipNa(Pick(g, RowsOfType(rows, option_type)))

-----------------------------------------------------------------------------
(* main of calculate_gex.py                                                *)

StrikeCells == {t9000c, t10000c, t9000, NaN}

\* rows with open interest under every Strike cell, rows without open
\* interest, and one row whose OI cell is no number
CsvRows == [OptionType : {"Call", "Put"}, Strike : StrikeCells, OI : {t2}]
           \cup [OptionType : {"Call", "Put"}, Strike : {t9000c, NaN}, OI : {t0}]
           \cup {[OptionType |-> "Call", Strike |-> t9000, OI |-> tDash]}
Spots == {10000}
TValues == {0 - T_MILLI, 0, T_MILLI}

PIdle ==
    /\ file_exists = FALSE
    /\ df = <<>>
    /\ pc = "off"
    /\ table_boundaries = <<>>
    /\ months = <<>>
    /\ selected_month = <<>>
    /\ calls = NotCalled
    /\ puts = NotCalled
    /\ csv_data = <<>>
    /\ outcome = "off"
    /\ error = NoError

\* data.csv is missing, or holds the rows an earlier run of the parser wrote
GInit ==
    /\ PIdle
    /\ data_csv \in {[written |-> FALSE, rows |-> <<>>]} \cup
                    {[written |-> TRUE, rows |-> r] :
                        r \in SeqUpTo(CsvRows, MaxCsv) \ {<<>>}}
    /\ cfg \in [spot : Spots, iv : {IV_MILLI}, mult : {MULT}, t : TValues]
    /\ gpc = "start"
    /\ gdf = <<>>
    /\ gex = <<>>
    /\ gamma_computed = <<>>
    /\ gex_by_strike = <<>>
    /\ cumulative_gex = <<>>
    /\ totals = [all |-> 0, call |-> 0, put |-> 0]

\* lines 72-74
CsvMissing ==
    /\ gpc = "start" /\ ~data_csv.written
    /\ gpc' = "missing"
    /\ UNCHANGED <<pvars, gdf, cfg, gex, gamma_computed, gex_by_strike, cumulative_gex,
                   totals>>

\* line 71
ReadCsv ==
    /\ gpc = "start" /\ data_csv.written
    /\ gdf' = data_csv.rows
    /\ gpc' = "apply"
    /\ UNCHANGED <<pvars, cfg, gex, gamma_computed, gex_by_strike, cumulative_gex,
                   totals>>

RowResults(rows, c) ==
    [i \in 1..Len(rows) |-> calculate_signed_gex(rows[i], c.spot, c.iv, c.mult, c.t)]

\* line 77; a ValueError of float() is not caught
ApplyGex ==
    /\ gpc = "apply"
    /\ \E res \in {RowResults(gdf, cfg)} :
          IF \E i \in 1..Len(res) : res[i].raised
          THEN gpc' = "crashed" /\ UNCHANGED <<gex, gamma_computed>>
          ELSE /\ gpc' = "group"
               /\ gex' = [i \in 1..Len(res) |-> res[i].gex]
               /\ gamma_computed' = [i \in 1..Len(res) |-> res[i].gamma_computed]
    /\ UNCHANGED <<pvars, gdf, cfg, gex_by_strike, cumulative_gex, totals>>

\* line 80
GroupByStrike ==
    /\ gpc = "group"
    /\ gex_by_strike' = groupby_strike_sum(StrikeColumn(gdf), gex)
    /\ gpc' = "print"
    /\ UNCHANGED <<pvars, gdf, cfg, gex, gamma_computed, cumulative_gex, totals>>

\* lines 93-95
PrintTotals ==
    /\ gpc = "print"
    /\ totals' = [all  |-> SumSkipNa(gex),
                  call |-> SideTotal(gdf, gex, "Call"),
                  put  |-> SideTotal(gdf, gex, "Put")]
    /\ gpc' = "plot"
    /\ UNCHANGED <<pvars, gdf, cfg, gex, gamma_computed, gex_by_strike,
                   cumulative_gex>>

\* lines 99-133
Plot ==
    /\ gpc = "plot"
    /\ cumulative_gex' = cumsum(gex_by_strike)
    /\ gpc' = "done"
    /\ UNCHANGED <<pvars, gdf, cfg, gex, gamma_computed, gex_by_strike, totals>>

GNext ==
    \/ CsvMissing
    \/ ReadCsv
    \/ ApplyGex
    \/ GroupByStrike
    \/ PrintTotals
    \/ Plot

SpecGex == GInit /\ [][GNext]_vars

-----------------------------------------------------------------------------
(* Properties of the parser.                                               *)

RowIndices == 0..(Len(df) - 1)

\* the trimmed first-column text of row r, empty for an empty cell
Trimmed(r) == IF df[r + 1][1] = NaN THEN <<>> ELSE Strip(df[r + 1][1])

\* row r is a sentinel: "TOTALS" exactly, or text containing "No month data"
Sentinel(r) == Trimmed(r) = TOTALS \/ Contains(Trimmed(r), NoMonthData)

\* find_table_boundaries has returned
Segmented == file_exists /\ pc # "start"

SegmentsOf(r) == {k \in 1..Len(table_boundaries) :
                    table_boundaries[k][1] <= r /\ r <= table_boundaries[k][2]}

\* C1: the segments returned by find_table_boundaries are ordered, each has
\* start <= end, the first starts at row 0, each next one starts at the
\* previous end + 1, the last ends at the last row, and every row index of
\* the grid lies in exactly one segment (no segment at all for the empty grid).
C1_SegmentsPartitionRows ==
    Segmented =>
        /\ \A k \in 1..Len(table_boundaries) :
              table_boundaries[k][1] <= table_boundaries[k][2]
        /\ table_boundaries # <<>> =>
              /\ table_boundaries[1][1] = 0
              /\ table_boundaries[Len(table_boundaries)][2] = Len(df) - 1
        /\ \A k \in 1..(Len(table_boundaries) - 1) :
              table_boundaries[k + 1][1] = table_boundaries[k][2] + 1
        /\ \A r \in RowIndices : Cardinality(SegmentsOf(r)) = 1
        /\ df = <<>> => table_boundaries = <<>>

\* C1 witness: a grid cut in two or more segments whose last table is left
\* open (its last row is no sentinel).
C1_Witness ==
    /\ Segmented
    /\ Len(table_boundaries) >= 2
    /\ ~Sentinel(Len(df) - 1)

\* C2: row r ends a returned segment exactly when its trimmed first-column
\* text is "TOTALS" or contains "No month data", or r is the last row; a
\* sentinel row is the last row of the segment it closes.
C2_SegmentEndsAreSentinels ==
    Segmented =>
        \A r \in RowIndices :
            (\E k \in 1..Len(table_boundaries) : table_boundaries[k][2] = r)
                <=> (Sentinel(r) \/ r = Len(df) - 1)

\* C2 witness: a grid where a padded " TOTALS " row closes a segment before
\* the last row and a "totals" row, also before the last row, closes none.
C2_Witness ==
    /\ Segmented
    /\ \E r \in RowIndices :
          /\ r < Len(df) - 1
          /\ df[r + 1][1] = PadTotals
          /\ \E k \in 1..Len(table_boundaries) : table_boundaries[k][2] = r
    /\ \E r \in RowIndices :
          /\ r < Len(df) - 1
          /\ df[r + 1][1] = LowerTotals
          /\ \A k \in 1..Len(table_boundaries) : table_boundaries[k][2] # r

\* the title rows of one side of the selected month
Titles(side) == {r \in RowIndices : Trimmed(r) = selected_month \o <<" ">> \o side}

Least(S) == CHOOSE x \in S : \A y \in S : x <= y

\* the last row of the table below title row r: the row before the first
\* sentinel at or after r + 2, the last row of the grid when there is none
LastRowBelow(r) ==
    IF \E s \in RowIndices : s >= r + 2 /\ Sentinel(s)
    THEN Least({s \in RowIndices : s >= r + 2 /\ Sentinel(s)}) - 1
    ELSE Len(df) - 1

Empty(r) == \A j \in 1..Len(df[r + 1]) : df[r + 1][j] = NaN

\* the indices of a set of rows in grid order
RECURSIVE InOrder(_)
InOrder(S) == IF S = {} THEN <<>> ELSE <<Least(S)>> \o InOrder(S \ {Least(S)})

\* what C3 says find_table_for_month returns for one side
ReturnsTableOf(res, side) ==
    /\ res.found = (Titles(side) # {})
    /\ ~res.found => res.rows = <<>>
    /\ res.found =>
          /\ res.columns = df[Least(Titles(side)) + 2]
          /\ res.idx = InOrder({i \in RowIndices :
                                  /\ Least(Titles(side)) + 2 <= i
                                  /\ i <= LastRowBelow(Least(Titles(side)))
                                  /\ ~Empty(i)})
          /\ res.rows = [k \in 1..Len(res.idx) |-> df[res.idx[k] + 1]]

\* C3: find_table_for_month returns found = true exactly when some row's
\* trimmed first-column text is "{month} {side}"; it uses the first such row
\* r, names the columns from row r+1 and returns the not entirely empty rows
\* of [r+2, e] in grid order, e being the row before the first sentinel at or
\* after r+2, or the last row; without a title row it returns an empty table
\* and found = false.
C3_FindTableForMonth ==
    /\ calls.called => ReturnsTableOf(calls, Calls)
    /\ puts.called => ReturnsTableOf(puts, Puts)

\* C10: every row find_table_for_month returns lies strictly between the
\* title row r and the first sentinel row after r, so the table holds no
\* sentinel row and no row of another table; when row r+1 is a sentinel the
\* table has no data rows.
C10_RowsStayInsideTable ==
    \A res \in {calls, puts} :
        res.found =>
            \A k \in 1..Len(res.idx) :
                /\ res.title < res.idx[k]
                /\ \A s \in RowIndices :
                      (res.title < s /\ Sentinel(s)) => res.idx[k] < s

\* main has run to its end after both tables were looked up
Extracted == pc = "done" /\ calls.called /\ puts.called

HasLabel(columns, name) ==
    \E j \in 1..Len(columns) :
        columns[j] # NaN /\ Strip(Lower(columns[j])) = name

LacksColumn(res) ==
    ~HasLabel(res.columns, t_strike) \/ ~HasLabel(res.columns, t_at_close)

OptionTypes == [k \in 1..Len(csv_data) |-> csv_data[k].OptionType]

\* C4 as stated: unless main aborts with an error, the artifact is written
\* with the rows of whichever side was found, and "No data found" is printed,
\* and nothing written, only if both title rows are missing.
C4_NoDataOnlyIfBothMissing ==
    (Extracted /\ outcome # "error") =>
        /\ (calls.found \/ puts.found) => data_csv.written
        /\ outcome = "nodata" => (Titles(Calls) = {} /\ Titles(Puts) = {})

\* C4 amended: a missing title row for one side is not fatal: main aborts
\* only if a title row is the last row of the grid or a found table with data
\* rows lacks the Strike or the At Close column.  Otherwise csv_data holds one
\* row per extracted row, the Calls rows first, then the Puts rows; data.csv is
\* written with them when there is at least one, and "No data found" is
\* printed, and nothing written, exactly when there is none: when both title
\* rows are missing, or when every found table has no data rows.
C4_MissingSideNotFatal ==
    /\ (pc = "done" /\ calls.called /\ outcome = "error") =>
          \/ \E side \in {Calls, Puts} : Len(df) - 1 \in Titles(side)
          \/ \E res \in {calls, puts} :
                res.found /\ res.rows # <<>> /\ LacksColumn(res)
    /\ (Extracted /\ outcome # "error") =>
          /\ OptionTypes = [k \in 1..Len(calls.rows) |-> "Call"] \o
                           [k \in 1..Len(puts.rows) |-> "Put"]
          /\ outcome = "written" <=> Len(calls.rows) + Len(puts.rows) > 0
          /\ outcome = "written" => data_csv = [written |-> TRUE, rows |-> csv_data]
          /\ outcome = "nodata" <=> Len(calls.rows) + Len(puts.rows) = 0
          /\ outcome = "nodata" => ~data_csv.written
          /\ (Titles(Calls) = {} /\ Titles(Puts) = {}) => outcome = "nodata"

\* C4 witness: the Puts title row is missing, the Calls table was found, and
\* data.csv was written with Call rows only.
C4_Witness ==
    /\ Extracted
    /\ Titles(Puts) = {} /\ ~puts.found /\ calls.found
    /\ outcome = "written"
    /\ data_csv.rows # <<>>
    /\ \A k \in 1..Len(data_csv.rows) : data_csv.rows[k].OptionType = "Call"

\* the first table lacks a column labelled "month"
FirstTableLacksMonth ==
    /\ table_boundaries # <<>>
    /\ \A r \in table_boundaries[1][1]..table_boundaries[1][2] :
          ~HasLabel(df[r + 1], t_month)

\* C5: when the Month column of the first table, or the Strike or At Close
\* column of an extracted table, cannot be located, an error is raised (for
\* the Month column, carrying the columns present) and the stage aborts, so no
\* row of csv_data comes from a table that lacks a Strike or an At Close
\* column.
C5_MissingColumnRaises ==
    /\ \A k \in 1..Len(csv_data) :
          /\ csv_data[k].OptionType = "Call" => ~LacksColumn(calls)
          /\ csv_data[k].OptionType = "Put" => ~LacksColumn(puts)
    /\ (Segmented /\ FirstTableLacksMonth) =>
          /\ pc = "done" /\ outcome = "error"
          /\ error.columns = df[table_boundaries[1][1] + 1]
    /\ Extracted =>
          \A res \in {calls, puts} :
              (res.found /\ LacksColumn(res)) => outcome = "error"

-----------------------------------------------------------------------------
(* Properties of the exposure calculation.                                 *)

\* the column GEX has been computed
Applied == gpc \in {"group", "print", "plot", "done"}

Records == 1..Len(gex)

\* the number a cell of digits and thousands separators stands for
RECURSIVE NumberOf(_)
NumberOf(text) ==
    IF text = <<>> THEN 0
    ELSE IF text[Len(text)] = "," THEN NumberOf(SubSeq(text, 1, Len(text) - 1))
    ELSE 10 * NumberOf(SubSeq(text, 1, Len(text) - 1))
         + (CHOOSE n \in 0..9 : DigitChars[n + 1] = text[Len(text)])

OpenInterest(i) == NumberOf(gdf[i].OI)
HasStrike(i) == gdf[i].Strike # NaN
StrikeOf(i) == NumberOf(gdf[i].Strike)

IsZero(x) == ~x.nan /\ x.v = 0

C7_PutNegatesCall ==
    Applied =>
        \A i, j \in Records :
            (/\ gdf[i].OptionType = "Call" /\ gdf[j].OptionType = "Put"
             /\ HasStrike(i) /\ gdf[i].Strike = gdf[j].Strike
             /\ gdf[i].OI = gdf[j].OI)
            => (~gex[i].nan /\ ~gex[j].nan /\ gex[j].v = 0 - gex[i].v)

\* C7 witness: such a Call and Put with a positive Call GEX.
C7_Witness ==
    /\ Applied
    /\ \E i, j \in Records :
          /\ gdf[i].OptionType = "Call" /\ gdf[j].OptionType = "Put"
          /\ HasStrike(i) /\ gdf[i].Strike = gdf[j].Strike
          /\ gdf[i].OI = gdf[j].OI
          /\ ~gex[i].nan /\ gex[i].v > 0 /\ gex[j].v < 0

\* the strike a key of the per-strike series stands for
KeyStrike(key) == IF key.numeric THEN key.num ELSE NumberOf(key.text)

RECURSIVE SumOver(_, _)
SumOver(S, f) ==
    IF S = {} THEN 0
    ELSE f[CHOOSE x \in S : TRUE] + SumOver(S \ {CHOOSE x \in S : TRUE}, f)

\* the values of the column GEX, 0 in place of NaN
GexValue == [i \in Records |-> IF gex[i].nan THEN 0 ELSE gex[i].v]
NetGex == [k \in 1..Len(gex_by_strike) |-> gex_by_strike[k].GEX]

\* C8: the per-strike series has one entry per distinct numeric strike (the
\* strike as calculate_signed_gex parses it), in ascending numeric order, so
\* the cumulative series at a strike is the sum of GEX over the rows whose
\* strike is at most that strike; also when the Strike cells are text such as
\* "9,000" and "10,000".
C8_SeriesInNumericStrikeOrder ==
    gpc = "done" =>
        /\ \A k \in 1..(Len(gex_by_strike) - 1) :
              KeyStrike(gex_by_strike[k].Strike) < KeyStrike(gex_by_strike[k + 1].Strike)
        /\ {KeyStrike(gex_by_strike[k].Strike) : k \in 1..Len(gex_by_strike)}
              = {StrikeOf(i) : i \in {r \in Records : HasStrike(r)}}
        /\ \A k \in 1..Len(cumulative_gex) :
              cumulative_gex[k].GEX =
                  SumOver({i \in Records :
                              HasStrike(i)
                              /\ StrikeOf(i) <= KeyStrike(cumulative_gex[k].Strike)},
                          GexValue)

\* C9: the net GEX of all strikes adds up to the sum of GEX over all rows,
\* which is the printed total and the last value of the cumulative series:
\* grouping drops no row's GEX and counts none twice.
C9_GroupingKeepsTotal ==
    gpc = "done" =>
        /\ SumOver(1..Len(gex_by_strike), NetGex) = SumOver(Records, GexValue)
        /\ totals.all = SumOver(Records, GexValue)
        /\ cumulative_gex # <<>> =>
              cumulative_gex[Len(cumulative_gex)].GEX = totals.all

\* C9 witness: two strikes, one of them shared by two rows, and a total
\* other than 0.
C9_Witness ==
    /\ gpc = "done"
    /\ Len(gex_by_strike) = 2
    /\ \E i, j \in Records :
          i # j /\ HasStrike(i) /\ gdf[i].Strike = gdf[j].Strike
          /\ GexValue[i] # 0 /\ GexValue[j] # 0
    /\ totals.all # 0

=============================================================================
